---- MODULE Spec2Model ----
(***************************************************************************)
(* Model of generate_qr_test_data.py: the record builder generate_qr_data  *)
(* and the driver main, which builds five login QR records, mutates four   *)
(* of them and prints each as indented JSON.                               *)
(*                                                                         *)
(* Python objects live in a heap of insertion-ordered dicts; a variable    *)
(* holds a reference.  The wall clock and standard output belong to the    *)
(* environment: the clock advances and can be set back between any two     *)
(* statements, and print encodes its text in the encoding of standard      *)
(* output, where a character the encoding lacks is replaced as the error   *)
(* handler of standard output says or raises UnicodeEncodeError.  TLA+     *)
(* string literals are ASCII, so a character outside ASCII is written      *)
(* <U+XXXX>, its code point, and Chars gives the characters of each        *)
(* literal that holds one.                                                 *)
(***************************************************************************)
EXTENDS Integers, Sequences, FiniteSets

VARIABLES
    pc,                   \* next statement of main (its line), "done", or the exception that ended the run; "gen"/"gen_done" in the builder harness
    clock,                \* wall clock, in units of 1/SubMs millisecond
    heap,                 \* sequence of dicts; an address is an index
    out,                  \* standard output: the sequence of print() calls
    valid_data,           \* locals of main: a reference, or None before assignment
    expired_timestamp,
    expired_data,
    wrong_type_data,
    missing_fields_data,
    invalid_token_data,
    encoding,             \* encoding of standard output
    errors,               \* error handler of standard output
    run,                  \* which execution of the script this is
    prev_out,             \* standard output of the previous execution, its timestamps blanked
    prev_ts,              \* first timestamp the previous execution printed
    args,                 \* builder harness: the arguments of the call
    ret                   \* builder harness: the value returned

vars == <<pc, clock, heap, out, valid_data, expired_timestamp, expired_data,
          wrong_type_data, missing_fields_data, invalid_token_data,
          encoding, errors, run, prev_out, prev_ts, args, ret>>

locals == <<valid_data, expired_timestamp, expired_data, wrong_type_data,
            missing_fields_data, invalid_token_data>>

harness == <<args, ret>>

env == <<encoding, errors, run, prev_out, prev_ts>>

----------------------------------------------------------------------------
(* Bounds of the model. *)

SubMs == 2              \* clock units per millisecond
ClockBase == 1000000    \* earliest start of a run, in milliseconds
StartSpread == 1        \* a run starts ClockBase*SubMs + 0..StartSpread units
MaxAdvance == 1         \* the clock reads at most this many units past ClockBase
MaxRuns == 2            \* executions of the script
SetBackMs == 120000     \* the farthest the clock is set back below ClockBase, in milliseconds

StartClocks == {ClockBase * SubMs + i : i \in 0..StartSpread}

\* The readings of the wall clock: up to MaxAdvance units past ClockBase,
\* and one reading SetBackMs before it.
ClockValues ==
    {ClockBase * SubMs + i : i \in 0..MaxAdvance}
        \cup {(ClockBase - SetBackMs) * SubMs}
        \cup StartClocks

----------------------------------------------------------------------------
(* Python values: a tag and a payload.  A dict is a sequence of key/value  *)
(* items in insertion order.                                               *)

Str(s) == <<"str", s>>
Num(n) == <<"int", n>>
Ref(a) == <<"ref", a>>
None == <<"none">>
Tag(v) == v[1]
StrVal(v) == v[2]
IntVal(v) == v[2]
Addr(v) == v[2]

Item(k, v) == <<k, v>>
Key(e) == e[1]
Val(e) == e[2]

Keys(d) == {Key(d[i]) : i \in DOMAIN d}
Has(d, k) == k \in Keys(d)
Get(d, k) == Val(d[CHOOSE i \in DOMAIN d : Key(d[i]) = k])
SetItem(d, k, v) ==
    IF Has(d, k)
    THEN [i \in DOMAIN d |-> IF Key(d[i]) = k THEN Item(k, v) ELSE d[i]]
    ELSE Append(d, Item(k, v))
DelItem(d, k) == SelectSeq(d, LAMBDA e : Key(e) # k)

\* obj[key] = value and del obj[key] on the dict at address a.
Store(h, a, k, v) == [h EXCEPT ![a] = SetItem(h[a], k, v)]
Delete(h, a, k) == [h EXCEPT ![a] = DelItem(h[a], k)]

----------------------------------------------------------------------------
(* generate_qr_data *)

DEFAULT_GOTIFY_URL == "http://111.228.1.24:2345"
DEFAULT_APP_TOKEN == "A1B2C3D4E5F6G7H8"
DEFAULT_CLIENT_TOKEN == "X9Y8Z7W6V5U4T3S2"
DEFAULT_SERVER_NAME == "<U+6D4B><U+8BD5><U+670D><U+52A1><U+5668>"
VERSION == "1.0"
TYPE_QR_LOGIN == "droplink_qr_login"

\* An argument the caller leaves out takes the default of the signature.
Omitted == "<omitted>"
Bind(a, default) == IF a = Omitted THEN default ELSE a

\* int(time.time() * 1000): the clock reading truncated to whole milliseconds.
NowMs(c) == c \div SubMs

\* Mutant: the two tokens are stored under each other's key.
generate_qr_data_swapped_tokens(h, c, gotify_url, app_token, client_token, server_name) ==
    LET data == << Item("gotifyServerUrl", Str(Bind(gotify_url, DEFAULT_GOTIFY_URL))),
                   Item("appToken", Str(Bind(client_token, DEFAULT_CLIENT_TOKEN))),
                   Item("clientToken", Str(Bind(app_token, DEFAULT_APP_TOKEN))),
                   Item("serverName", Str(Bind(server_name, DEFAULT_SERVER_NAME))) >>
        h1 == Append(h, data)
        qr_data == << Item("version", Str(VERSION)),
                      Item("type", Str(TYPE_QR_LOGIN)),
                      Item("timestamp", Num(NowMs(c))),
                      Item("data", Ref(Len(h1))) >>
        h2 == Append(h1, qr_data)
    IN  [heap |-> h2, ret |-> Ref(Len(h2))]

\* Mutant: the nested dict is one object, created by the first call and
\* filled in again by every later one, that all records refer to.
generate_qr_data_shared_data(h, c, gotify_url, app_token, client_token, server_name) ==
    LET fill(d) ==
            SetItem(SetItem(SetItem(SetItem(d,
                "gotifyServerUrl", Str(Bind(gotify_url, DEFAULT_GOTIFY_URL))),
                "appToken", Str(Bind(app_token, DEFAULT_APP_TOKEN))),
                "clientToken", Str(Bind(client_token, DEFAULT_CLIENT_TOKEN))),
                "serverName", Str(Bind(server_name, DEFAULT_SERVER_NAME)))
        h1 == IF h = << >> THEN << fill(<< >>) >> ELSE [h EXCEPT ![1] = fill(h[1])]
        qr_data == << Item("version", Str(VERSION)),
                      Item("type", Str(TYPE_QR_LOGIN)),
                      Item("timestamp", Num(NowMs(c))),
                      Item("data", Ref(1)) >>
        h2 == Append(h1, qr_data)
    IN  [heap |-> h2, ret |-> Ref(Len(h2))]

\* The call on heap h at clock c, each argument a string or Omitted: the
\* nested dict and then the record are new objects, appended to the heap;
\* ret refers to the record.
generate_qr_data(h, c, gotify_url, app_token, client_token, server_name) ==
    LET current_timestamp == NowMs(c)
        data == << Item("gotifyServerUrl", Str(Bind(gotify_url, DEFAULT_GOTIFY_URL))),
                   Item("appToken", Str(Bind(app_token, DEFAULT_APP_TOKEN))),
                   Item("clientToken", Str(Bind(client_token, DEFAULT_CLIENT_TOKEN))),
                   Item("serverName", Str(Bind(server_name, DEFAULT_SERVER_NAME))) >>
        h1 == Append(h, data)
        qr_data == << Item("version", Str(VERSION)),
                      Item("type", Str(TYPE_QR_LOGIN)),
                      Item("timestamp", Num(current_timestamp)),
                      Item("data", Ref(Len(h1))) >>
        h2 == Append(h1, qr_data)
    IN  [heap |-> h2, ret |-> Ref(Len(h2))]

----------------------------------------------------------------------------
(* json.dumps(obj, ensure_ascii=False, indent=2): the text as a sequence   *)
(* of tokens.  A string is written between quotes with its characters as   *)
(* they are (ensure_ascii=False; none of the script's strings holds a      *)
(* quote, a backslash or a control character), an int as its sign and its  *)
(* decimal digits, a dict as its items in insertion order, each on a line  *)
(* of its own indented by INDENT spaces per nesting level.                 *)

INDENT == 2

LBrace == <<"{">>
RBrace == <<"}">>
Colon == <<":">>
Comma == <<",">>
Null == <<"null">>
Newline(depth) == <<"nl", INDENT * depth>>
StrTok(s) == <<"string", s>>

RECURSIVE Digits(_)
Digits(n) == IF n < 10 THEN <<n>> ELSE Append(Digits(n \div 10), n % 10)

NumTok(n) == <<"number", n < 0, Digits(IF n < 0 THEN -n ELSE n)>>

RECURSIVE Dumps(_, _, _), DumpItems(_, _, _, _)
Dumps(h, v, depth) ==
    CASE Tag(v) = "str" -> << StrTok(StrVal(v)) >>
      [] Tag(v) = "int" -> << NumTok(IntVal(v)) >>
      [] Tag(v) = "none" -> << Null >>
      [] Tag(v) = "ref" ->
            IF h[Addr(v)] = << >>
            THEN << LBrace, RBrace >>
            ELSE << LBrace >> \o DumpItems(h, h[Addr(v)], 1, depth + 1)
                 \o << Newline(depth), RBrace >>
DumpItems(h, d, i, depth) ==
    (IF i = 1 THEN << >> ELSE << Comma >>)
    \o << Newline(depth), StrTok(Key(d[i])), Colon >>
    \o Dumps(h, Val(d[i]), depth)
    \o (IF i < Len(d) THEN DumpItems(h, d, i + 1, depth) ELSE << >>)

\* print(...): one entry of standard output per call, a line of text or a
\* JSON text.  The text of a line and of a string token is the string
\* passed to print and, once written, the sequence of its units as encoded.
Line(s) == <<"line", s>>
Json(toks) == <<"json", toks>>
Blank == Line("")

\* print(json.dumps(obj, ensure_ascii=False, indent=2)); print()
PrintJson(h, obj) == << Json(Dumps(h, obj, 0)), Blank >>

\* "=" * 60 and "-" * 60
RULE_EQ == "============================================================"
RULE_DASH == "------------------------------------------------------------"

----------------------------------------------------------------------------
(* main: one action per statement (a print group counts as one).  pc names *)
(* the line of the next statement.                                         *)

\* The text literals of main.  A character outside ASCII is written <U+XXXX>,
\* its code point.
TITLE ==
    "Droplink <U+4E8C><U+7EF4><U+7801><U+767B><U+5F55>" \o
    "<U+6D4B><U+8BD5><U+6570><U+636E><U+751F><U+6210><U+5668>"
BANNER_1 ==
    "<U+3010>1<U+3011><U+6709><U+6548><U+7684><U+4E8C>" \o
    "<U+7EF4><U+7801><U+6570><U+636E><U+FF08>5 <U+5206>" \o
    "<U+949F><U+6709><U+6548><U+671F><U+FF09><U+FF1A>"
BANNER_2 ==
    "<U+3010>2<U+3011><U+8FC7><U+671F><U+7684><U+4E8C>" \o
    "<U+7EF4><U+7801><U+6570><U+636E><U+FF08><U+7528><U+4E8E>" \o
    "<U+6D4B><U+8BD5><U+8FC7><U+671F><U+9A8C><U+8BC1><U+FF09>" \o
    "<U+FF1A>"
BANNER_3 ==
    "<U+3010>3<U+3011><U+9519><U+8BEF><U+7C7B><U+578B>" \o
    "<U+7684><U+4E8C><U+7EF4><U+7801><U+6570><U+636E><U+FF08>" \o
    "<U+7528><U+4E8E><U+6D4B><U+8BD5><U+7C7B><U+578B><U+9A8C>" \o
    "<U+8BC1><U+FF09><U+FF1A>"
BANNER_4 ==
    "<U+3010>4<U+3011><U+7F3A><U+5C11><U+5FC5><U+9700>" \o
    "<U+5B57><U+6BB5><U+7684><U+4E8C><U+7EF4><U+7801><U+6570>" \o
    "<U+636E><U+FF08><U+7528><U+4E8E><U+6D4B><U+8BD5><U+5B57>" \o
    "<U+6BB5><U+9A8C><U+8BC1><U+FF09><U+FF1A>"
BANNER_5 ==
    "<U+3010>5<U+3011><U+65E0><U+6548> Token <U+7684><U+4E8C>" \o
    "<U+7EF4><U+7801><U+6570><U+636E><U+FF08><U+7528><U+4E8E>" \o
    "<U+6D4B><U+8BD5> Token <U+9A8C><U+8BC1><U+FF09><U+FF1A>"
HINTS ==
    << "<U+63D0><U+793A><U+FF1A>",
       "1. <U+590D><U+5236><U+4E0A><U+9762><U+7684> JSON " \o
       "<U+6570><U+636E><U+5230><U+5728><U+7EBF><U+4E8C><U+7EF4>" \o
       "<U+7801><U+751F><U+6210><U+5668>",
       "2. <U+63A8><U+8350><U+4F7F><U+7528><U+FF1A>https://www.q" \o
       "r-code-generator.com/",
       "3. <U+6216><U+4F7F><U+7528><U+FF1A>https://www.qrcode-mo" \o
       "nkey.com/",
       "4. <U+751F><U+6210><U+4E8C><U+7EF4><U+7801><U+540E>" \o
       "<U+FF0C><U+4F7F><U+7528> Droplink <U+5E94><U+7528>" \o
       "<U+626B><U+63CF><U+6D4B><U+8BD5>" >>

TYPE_OTHER_APP == "other_app_qr_code"
INVALID_APP_TOKEN == "INVALID_APP_TOKEN"
INVALID_CLIENT_TOKEN == "INVALID_CLIENT_TOKEN"

\* Mutant: the timestamp is backdated by the validity period itself.
EXPIRED_OFFSET_MS_five_minutes == 5 * 60 * 1000

\* (6 * 60 * 1000): six minutes, in milliseconds
EXPIRED_OFFSET_MS == 6 * 60 * 1000

\* The arguments of a call, in the order of the signature: gotify_url,
\* app_token, client_token, server_name.
NoArgs == << Omitted, Omitted, Omitted, Omitted >>

\* Mutant: the fifth call passes no tokens.
InvalidTokenArgs_defaults == << Omitted, Omitted, Omitted, Omitted >>

\* The keyword arguments of the fifth call.
InvalidTokenArgs == << Omitted, INVALID_APP_TOKEN, INVALID_CLIENT_TOKEN, Omitted >>

\* generate_qr_data(...) with the arguments a.
Call(h, c, a) == generate_qr_data(h, c, a[1], a[2], a[3], a[4])

\* The strings of the script that hold characters outside ASCII.
NON_ASCII == {TITLE, BANNER_1, BANNER_2, BANNER_3, BANNER_4, BANNER_5,
              DEFAULT_SERVER_NAME} \cup {HINTS[i] : i \in DOMAIN HINTS}

\* The characters of each such string: runs of ASCII text and runs of
\* code points.
A(s) == <<"a", s>>
U(cps) == <<"u", cps>>

Chars(s) ==
    CASE s = DEFAULT_SERVER_NAME ->
            << U(<< 27979, 35797, 26381, 21153, 22120 >>) >>
      [] s = TITLE ->
            << A("Droplink "),
               U(<< 20108, 32500, 30721, 30331, 24405, 27979, 35797, 25968,
                     25454, 29983, 25104, 22120 >>) >>
      [] s = BANNER_1 ->
            << U(<< 12304 >>),
               A("1"),
               U(<< 12305, 26377, 25928, 30340, 20108, 32500, 30721, 25968,
                     25454, 65288 >>),
               A("5 "),
               U(<< 20998, 38047, 26377, 25928, 26399, 65289, 65306 >>) >>
      [] s = BANNER_2 ->
            << U(<< 12304 >>),
               A("2"),
               U(<< 12305, 36807, 26399, 30340, 20108, 32500, 30721, 25968,
                     25454, 65288, 29992, 20110, 27979, 35797, 36807, 26399,
                     39564, 35777, 65289, 65306 >>) >>
      [] s = BANNER_3 ->
            << U(<< 12304 >>),
               A("3"),
               U(<< 12305, 38169, 35823, 31867, 22411, 30340, 20108, 32500,
                     30721, 25968, 25454, 65288, 29992, 20110, 27979, 35797,
                     31867, 22411, 39564, 35777, 65289, 65306 >>) >>
      [] s = BANNER_4 ->
            << U(<< 12304 >>),
               A("4"),
               U(<< 12305, 32570, 23569, 24517, 38656, 23383, 27573, 30340,
                     20108, 32500, 30721, 25968, 25454, 65288, 29992, 20110,
                     27979, 35797, 23383, 27573, 39564, 35777, 65289, 65306 >>) >>
      [] s = BANNER_5 ->
            << U(<< 12304 >>),
               A("5"),
               U(<< 12305, 26080, 25928 >>),
               A(" Token "),
               U(<< 30340, 20108, 32500, 30721, 25968, 25454, 65288, 29992,
                     20110, 27979, 35797 >>),
               A(" Token "),
               U(<< 39564, 35777, 65289, 65306 >>) >>
      [] s = HINTS[1] ->
            << U(<< 25552, 31034, 65306 >>) >>
      [] s = HINTS[2] ->
            << A("1. "),
               U(<< 22797, 21046, 19978, 38754, 30340 >>),
               A(" JSON "),
               U(<< 25968, 25454, 21040, 22312, 32447, 20108, 32500, 30721,
                     29983, 25104, 22120 >>) >>
      [] s = HINTS[3] ->
            << A("2. "),
               U(<< 25512, 33616, 20351, 29992, 65306 >>),
               A("https://www.qr-code-generator.com/") >>
      [] s = HINTS[4] ->
            << A("3. "),
               U(<< 25110, 20351, 29992, 65306 >>),
               A("https://www.qrcode-monkey.com/") >>
      [] s = HINTS[5] ->
            << A("4. "),
               U(<< 29983, 25104, 20108, 32500, 30721, 21518, 65292, 20351,
                     29992 >>),
               A(" Droplink "),
               U(<< 24212, 29992, 25195, 25551, 27979, 35797 >>) >>

----------------------------------------------------------------------------
(* Standard output.  print encodes its text in the encoding of stdout; a   *)
(* character the encoding lacks goes to the error handler of stdout, which *)
(* gives its replacement or raises.  Both are set outside the script       *)
(* (locale, PYTHONIOENCODING=encoding:errors); with a name Python has no   *)
(* encoding for, the interpreter stops before the script starts.           *)

\* An encoding that has every character, one that has ASCII only, and
\* three that have some of the characters of the script.
Encodings == {"utf-8", "ascii", "shift_jis", "big5", "euc_kr"}

\* The characters of the script an encoding lacks.
Lacking(enc) ==
    CASE enc = "utf-8" -> {}
      [] enc = "shift_jis" ->
            {21153, 22797, 24212, 24405, 25195, 27979, 30721, 31867,
             32447, 32500, 35777, 35797, 35823, 36807, 38047, 38169,
             39564}
      [] enc = "big5" ->
            {21153, 24212, 24405, 25195, 25968, 26080, 27979, 30721,
             31867, 32447, 32500, 35777, 35797, 35823, 36807, 38047,
             38169, 39564}
      [] enc = "euc_kr" ->
            {21153, 22797, 24212, 24405, 25195, 25968, 27979, 30721,
             31867, 32447, 32500, 33616, 35777, 35797, 35823, 36807,
             38047, 38169, 39564}

\* Whether the encoding has the character cp.
CanEncode(enc, cp) ==
    \/ cp < 128
    \/ enc # "ascii" /\ cp \notin Lacking(enc)

\* A name that is no error handler: Python looks the handler up when a
\* character first needs it, and LookupError ends the run there.
UNKNOWN_HANDLER == "bogus"

ErrorHandlers == {"strict", "replace", "ignore", "backslashreplace",
                  "xmlcharrefreplace", "namereplace",
                  "surrogateescape", "surrogatepass", UNKNOWN_HANDLER}

\* The handlers that raise for a character that is not a surrogate.
Raising == {"strict", "surrogateescape", "surrogatepass"}

\* The settings of stdout.
Stdouts == Encodings \X ErrorHandlers

\* A unit of written text: ASCII text, or one character in the encoding
\* of stdout.
C(cp) == <<"c", cp>>

HEX == << "0", "1", "2", "3", "4", "5", "6", "7", "8", "9",
          "a", "b", "c", "d", "e", "f" >>
HEX_UPPER == << "0", "1", "2", "3", "4", "5", "6", "7", "8", "9",
                "A", "B", "C", "D", "E", "F" >>
DEC == << "0", "1", "2", "3", "4", "5", "6", "7", "8", "9" >>

\* n in `width` hexadecimal digits, and n in decimal, a unit per digit.
RECURSIVE Hex(_, _, _)
Hex(digits, n, width) ==
    IF width = 0 THEN << >>
    ELSE Append(Hex(digits, n \div 16, width - 1), A(digits[(n % 16) + 1]))

RECURSIVE Dec(_)
Dec(n) ==
    IF n < 10 THEN << A(DEC[n + 1]) >>
    ELSE Append(Dec(n \div 10), A(DEC[(n % 10) + 1]))

\* The Unicode name of a character of the script.
CharName(cp) ==
    CASE cp = 12304 -> << A("LEFT BLACK LENTICULAR BRACKET") >>
      [] cp = 12305 -> << A("RIGHT BLACK LENTICULAR BRACKET") >>
      [] cp = 65288 -> << A("FULLWIDTH LEFT PARENTHESIS") >>
      [] cp = 65289 -> << A("FULLWIDTH RIGHT PARENTHESIS") >>
      [] cp = 65292 -> << A("FULLWIDTH COMMA") >>
      [] cp = 65306 -> << A("FULLWIDTH COLON") >>
      [] OTHER -> << A("CJK UNIFIED IDEOGRAPH-") >> \o Hex(HEX_UPPER, cp, 4)

\* What a handler that does not raise writes for the character cp.
Replacement(cp, handler) ==
    CASE handler = "replace" -> << A("?") >>
      [] handler = "ignore" -> << >>
      [] handler = "backslashreplace" ->
            IF cp < 256 THEN << A("\\"), A("x") >> \o Hex(HEX, cp, 2)
            ELSE IF cp < 65536 THEN << A("\\"), A("u") >> \o Hex(HEX, cp, 4)
            ELSE << A("\\"), A("U") >> \o Hex(HEX, cp, 8)
      [] handler = "xmlcharrefreplace" ->
            << A("&"), A("#") >> \o Dec(cp) \o << A(";") >>
      [] handler = "namereplace" ->
            << A("\\"), A("N"), A("{") >> \o CharName(cp) \o << A("}") >>

\* The characters of the string s that the encoding lacks.
Unencodable(s, enc) ==
    IF s \notin NON_ASCII THEN {}
    ELSE {cp \in UNION {{c[2][k] : k \in DOMAIN c[2]} :
                           c \in {Chars(s)[i] : i \in {j \in DOMAIN Chars(s) :
                                                          Chars(s)[j][1] = "u"}}} :
             ~ CanEncode(enc, cp)}

\* The exception that encoding the string s raises, "none" where it
\* raises none.
Exception(s, enc, handler) ==
    IF Unencodable(s, enc) = {} THEN "none"
    ELSE IF handler \in Raising THEN "UnicodeEncodeError"
    ELSE IF handler = UNKNOWN_HANDLER THEN "LookupError"
    ELSE "none"

RECURSIVE EncodeRun(_, _, _)
EncodeRun(cps, enc, handler) ==
    IF cps = << >> THEN << >>
    ELSE (IF CanEncode(enc, cps[1]) THEN << C(cps[1]) >>
          ELSE Replacement(cps[1], handler))
         \o EncodeRun(Tail(cps), enc, handler)

RECURSIVE EncodeChunks(_, _, _)
EncodeChunks(cs, enc, handler) ==
    IF cs = << >> THEN << >>
    ELSE (IF cs[1][1] = "a" THEN << cs[1] >> ELSE EncodeRun(cs[1][2], enc, handler))
         \o EncodeChunks(Tail(cs), enc, handler)

\* The text written for the string s, where encoding it does not raise.
Encode(s, enc, handler) ==
    IF s = "" THEN << >>
    ELSE IF s \notin NON_ASCII THEN << A(s) >>
    ELSE EncodeChunks(Chars(s), enc, handler)

\* The strings of an entry, the exception print of it raises, and the
\* entry as written.
Strings(e) ==
    IF Tag(e) = "line" THEN {e[2]}
    ELSE {e[2][k][2] : k \in {j \in DOMAIN e[2] : Tag(e[2][j]) = "string"}}

Raised(e, enc, handler) ==
    IF \A s \in Strings(e) : Exception(s, enc, handler) = "none" THEN "none"
    ELSE Exception(CHOOSE s \in Strings(e) : Exception(s, enc, handler) # "none",
                   enc, handler)

Encoded(e, enc, handler) ==
    IF Tag(e) = "line" THEN Line(Encode(e[2], enc, handler))
    ELSE Json([k \in DOMAIN e[2] |->
                  IF Tag(e[2][k]) = "string"
                  THEN StrTok(Encode(e[2][k][2], enc, handler))
                  ELSE e[2][k]])

\* The entries of a print group written before the first that raises, and
\* the exception that one raises.
RECURSIVE Written(_, _, _)
Written(lines, enc, handler) ==
    IF lines = << >> \/ Raised(lines[1], enc, handler) # "none" THEN << >>
    ELSE << Encoded(lines[1], enc, handler) >> \o Written(Tail(lines), enc, handler)

RECURSIVE FirstRaised(_, _, _)
FirstRaised(lines, enc, handler) ==
    IF lines = << >> THEN "none"
    ELSE IF Raised(lines[1], enc, handler) # "none" THEN Raised(lines[1], enc, handler)
    ELSE FirstRaised(Tail(lines), enc, handler)

\* Written text as a string: a character outside ASCII as <U+XXXX>.
RECURSIVE HexString(_, _)
HexString(n, width) ==
    IF width = 0 THEN ""
    ELSE HexString(n \div 16, width - 1) \o HEX_UPPER[(n % 16) + 1]

Glyph(cp) == "<U+" \o HexString(cp, 4) \o ">"

RECURSIVE Text(_)
Text(units) ==
    IF units = << >> THEN ""
    ELSE IF Len(units) = 1
    THEN (IF units[1][1] = "a" THEN units[1][2] ELSE Glyph(units[1][2]))
    ELSE Text(SubSeq(units, 1, Len(units) \div 2))
         \o Text(SubSeq(units, (Len(units) \div 2) + 1, Len(units)))

\* The output with the timestamp of every JSON text blanked.
Redact(o) ==
    [k \in DOMAIN o |->
        IF Tag(o[k]) = "json"
        THEN Json([j \in DOMAIN o[k][2] |->
                      IF /\ j > 2
                         /\ Tag(o[k][2][j - 1]) = ":"
                         /\ Tag(o[k][2][j - 2]) = "string"
                         /\ Text(o[k][2][j - 2][2]) = "timestamp"
                      THEN Null
                      ELSE o[k][2][j]])
        ELSE o[k]]

Init ==
    /\ pc = "L40"
    /\ clock \in StartClocks
    /\ \E so \in Stdouts : encoding = so[1] /\ errors = so[2]
    /\ heap = << >>
    /\ out = << >>
    /\ valid_data = None
    /\ expired_timestamp = None
    /\ expired_data = None
    /\ wrong_type_data = None
    /\ missing_fields_data = None
    /\ invalid_token_data = None
    /\ run = 1
    /\ prev_out = << >>
    /\ prev_ts = None
    /\ args = NoArgs
    /\ ret = None

\* Time passes, or the wall clock is stepped forward: a later reading of
\* time.time() is greater.
Tick ==
    /\ \E c \in ClockValues : c > clock /\ clock' = c
    /\ UNCHANGED <<pc, heap, out, locals, env, harness>>

\* The wall clock is set back: a later reading of time.time() is less.
SetBack ==
    /\ \E c \in ClockValues : c < clock /\ clock' = c
    /\ UNCHANGED <<pc, heap, out, locals, env, harness>>

\* A print group at line `at`: the lines are written, encoded, and control
\* moves on; a line whose encoding raises ends the run with that exception
\* (UnicodeEncodeError, LookupError), which nothing catches, after the
\* lines before it.
PrintLines(at, lines, next) ==
    /\ pc = at
    /\ out' = out \o Written(lines, encoding, errors)
    /\ pc' = IF FirstRaised(lines, encoding, errors) = "none"
             THEN next ELSE FirstRaised(lines, encoding, errors)
    /\ UNCHANGED <<clock, heap, locals, env, harness>>

\* Mutant: the first rule of the header is drawn by the clock reading.
Header_clock_rule ==
    PrintLines("L40", << Line(IF clock % SubMs = 0 THEN RULE_EQ ELSE RULE_DASH),
                         Line(TITLE), Line(RULE_EQ), Blank >>, "L46")

Header == PrintLines("L40", << Line(RULE_EQ), Line(TITLE), Line(RULE_EQ), Blank >>, "L46")

Banner1 == PrintLines("L46", << Line(BANNER_1), Line(RULE_DASH) >>, "L48")

Gen1 ==
    /\ pc = "L48"
    /\ LET r == Call(heap, clock, NoArgs)
       IN  heap' = r.heap /\ valid_data' = r.ret
    /\ pc' = "L49"
    /\ UNCHANGED <<clock, out, expired_timestamp, expired_data, wrong_type_data,
                   missing_fields_data, invalid_token_data, env, harness>>

Print1 == PrintLines("L49", PrintJson(heap, valid_data), "L53")

Banner2 == PrintLines("L53", << Line(BANNER_2), Line(RULE_DASH) >>, "L55")

ReadExpired ==
    /\ pc = "L55"
    /\ expired_timestamp' = Num(NowMs(clock) - EXPIRED_OFFSET_MS)
    /\ pc' = "L56"
    /\ UNCHANGED <<clock, heap, out, valid_data, expired_data, wrong_type_data,
                   missing_fields_data, invalid_token_data, env, harness>>

Gen2 ==
    /\ pc = "L56"
    /\ LET r == Call(heap, clock, NoArgs)
       IN  heap' = r.heap /\ expired_data' = r.ret
    /\ pc' = "L57"
    /\ UNCHANGED <<clock, out, valid_data, expired_timestamp, wrong_type_data,
                   missing_fields_data, invalid_token_data, env, harness>>

\* Mutant: the backdated timestamp is stored under a misspelt key.
SetTimestamp2_new_key ==
    /\ pc = "L57"
    /\ heap' = Store(heap, Addr(expired_data), "timeStamp", expired_timestamp)
    /\ pc' = "L58"
    /\ UNCHANGED <<clock, out, locals, env, harness>>

SetTimestamp2 ==
    /\ pc = "L57"
    /\ heap' = Store(heap, Addr(expired_data), "timestamp", expired_timestamp)
    /\ pc' = "L58"
    /\ UNCHANGED <<clock, out, locals, env, harness>>

Print2 == PrintLines("L58", PrintJson(heap, expired_data), "L62")

Banner3 == PrintLines("L62", << Line(BANNER_3), Line(RULE_DASH) >>, "L64")

Gen3 ==
    /\ pc = "L64"
    /\ LET r == Call(heap, clock, NoArgs)
       IN  heap' = r.heap /\ wrong_type_data' = r.ret
    /\ pc' = "L65"
    /\ UNCHANGED <<clock, out, valid_data, expired_timestamp, expired_data,
                   missing_fields_data, invalid_token_data, env, harness>>

\* Mutant: the type is changed in the record of the variant before.
SetType3_on_expired ==
    /\ pc = "L65"
    /\ heap' = Store(heap, Addr(expired_data), "type", Str(TYPE_OTHER_APP))
    /\ pc' = "L66"
    /\ UNCHANGED <<clock, out, locals, env, harness>>

SetType3 ==
    /\ pc = "L65"
    /\ heap' = Store(heap, Addr(wrong_type_data), "type", Str(TYPE_OTHER_APP))
    /\ pc' = "L66"
    /\ UNCHANGED <<clock, out, locals, env, harness>>

Print3 == PrintLines("L66", PrintJson(heap, wrong_type_data), "L70")

Banner4 == PrintLines("L70", << Line(BANNER_4), Line(RULE_DASH) >>, "L72")

Gen4 ==
    /\ pc = "L72"
    /\ LET r == Call(heap, clock, NoArgs)
       IN  heap' = r.heap /\ missing_fields_data' = r.ret
    /\ pc' = "L73"
    /\ UNCHANGED <<clock, out, valid_data, expired_timestamp, expired_data,
                   wrong_type_data, invalid_token_data, env, harness>>

\* del obj["data"][key] at line `at`: a key that is not there raises
\* KeyError, which nothing catches.
DelDataKey(at, obj, key, next) ==
    /\ pc = at
    /\ IF Has(heap[Addr(obj)], "data")
          /\ Has(heap[Addr(Get(heap[Addr(obj)], "data"))], key)
       THEN /\ heap' = Delete(heap, Addr(Get(heap[Addr(obj)], "data")), key)
            /\ pc' = next
       ELSE /\ heap' = heap
            /\ pc' = "KeyError"
    /\ UNCHANGED <<clock, out, locals, env, harness>>

DelAppToken4 == DelDataKey("L73", missing_fields_data, "appToken", "L74")

\* Mutant: the second deletion names another key of the data object.
DelClientToken4_server_name == DelDataKey("L74", missing_fields_data, "serverName", "L75")

DelClientToken4 == DelDataKey("L74", missing_fields_data, "clientToken", "L75")

Print4 == PrintLines("L75", PrintJson(heap, missing_fields_data), "L79")

Banner5 == PrintLines("L79", << Line(BANNER_5), Line(RULE_DASH) >>, "L81")

Gen5 ==
    /\ pc = "L81"
    /\ LET r == Call(heap, clock, InvalidTokenArgs)
       IN  heap' = r.heap /\ invalid_token_data' = r.ret
    /\ pc' = "L85"
    /\ UNCHANGED <<clock, out, valid_data, expired_timestamp, expired_data,
                   wrong_type_data, missing_fields_data, env, harness>>

Print5 == PrintLines("L85", PrintJson(heap, invalid_token_data), "L88")

Footer ==
    PrintLines("L88", << Line(RULE_EQ) >> \o [i \in DOMAIN HINTS |-> Line(HINTS[i])]
                 \o << Line(RULE_EQ) >>, "done")

\* The script is run again: a new process, with the output of the run
\* before kept for comparison.
Restart ==
    /\ pc \in {"done", "KeyError", "UnicodeEncodeError", "LookupError"}
    /\ run < MaxRuns
    /\ run' = run + 1
    /\ prev_out' = Redact(out)
    /\ prev_ts' = IF valid_data = None THEN None
                  ELSE Get(heap[Addr(valid_data)], "timestamp")
    /\ UNCHANGED <<encoding, errors>>
    /\ pc' = "L40"
    /\ clock' \in StartClocks
    /\ heap' = << >>
    /\ out' = << >>
    /\ valid_data' = None
    /\ expired_timestamp' = None
    /\ expired_data' = None
    /\ wrong_type_data' = None
    /\ missing_fields_data' = None
    /\ invalid_token_data' = None
    /\ UNCHANGED harness

\* The statements of main.
Step ==
    \/ Header
    \/ Banner1 \/ Gen1 \/ Print1
    \/ Banner2 \/ ReadExpired \/ Gen2 \/ SetTimestamp2 \/ Print2
    \/ Banner3 \/ Gen3 \/ SetType3 \/ Print3
    \/ Banner4 \/ Gen4 \/ DelAppToken4 \/ DelClientToken4 \/ Print4
    \/ Banner5 \/ Gen5 \/ Print5
    \/ Footer

Next == Step \/ Tick \/ SetBack \/ Restart

Spec == Init /\ [][Next]_vars

\* main runs to its end: no statement waits for anything.
LiveSpec == Spec /\ WF_vars(Step)

----------------------------------------------------------------------------
(* The builder on its own: one call of generate_qr_data with every         *)
(* combination of supplied and omitted arguments.                          *)

GotifyUrls == {Omitted, "http://10.0.0.1:80", ""}
AppTokens == {Omitted, INVALID_APP_TOKEN, DEFAULT_CLIENT_TOKEN}
ClientTokens == {Omitted, INVALID_CLIENT_TOKEN, DEFAULT_APP_TOKEN}
ServerNames == {Omitted, "srv", ""}

InitGen ==
    /\ pc = "gen"
    /\ clock \in StartClocks
    /\ heap = << >>
    /\ out = << >>
    /\ valid_data = None
    /\ expired_timestamp = None
    /\ expired_data = None
    /\ wrong_type_data = None
    /\ missing_fields_data = None
    /\ invalid_token_data = None
    /\ encoding = "utf-8"
    /\ errors = "strict"
    /\ run = 1
    /\ prev_out = << >>
    /\ prev_ts = None
    /\ args \in GotifyUrls \X AppTokens \X ClientTokens \X ServerNames
    /\ ret = None

\* ret = generate_qr_data(**args)
GenCall ==
    /\ pc = "gen"
    /\ LET r == Call(heap, clock, args)
       IN  heap' = r.heap /\ ret' = r.ret
    /\ pc' = "gen_done"
    /\ UNCHANGED <<clock, out, locals, env, args>>

NextGen == GenCall \/ Tick \/ SetBack

SpecGen == InitGen /\ [][NextGen]_vars

----------------------------------------------------------------------------
(* Observation, used by the properties only: json.loads on the printed     *)
(* text, and the value a reference stands for.  A parsed dict is           *)
(* Dict(its items in order).                                               *)

Dict(items) == <<"dict", items>>
Items(v) == v[2]
Invalid == <<"invalid">>

RECURSIVE FromDigits(_)
FromDigits(d) ==
    IF d = << >> THEN 0
    ELSE FromDigits(SubSeq(d, 1, Len(d) - 1)) * 10 + d[Len(d)]

\* A string of the JSON text, its units read in the encoding of stdout: a
\* backslash starts an escape, and of the escapes a handler writes only
\* \uXXXX is one of JSON, standing for the character of that code point.
IsChar(u, ch) == u[1] = "a" /\ u[2] = ch
IsHexDigit(u) ==
    u[1] = "a" /\ \E k \in 1..16 : HEX[k] = u[2] \/ HEX_UPPER[k] = u[2]
HexValue(u) == (CHOOSE k \in 1..16 : HEX[k] = u[2] \/ HEX_UPPER[k] = u[2]) - 1

EscapesValid(units) ==
    \A i \in DOMAIN units :
        IsChar(units[i], "\\") =>
            /\ i + 5 <= Len(units)
            /\ IsChar(units[i + 1], "u")
            /\ \A k \in 2..5 : IsHexDigit(units[i + k])

\* Where every escape is valid: each backslash becomes the character of
\* its code point, and the five units after it, the u and the digits, go.
InEscape(units, i) ==
    \E k \in 1..5 : i - k >= 1 /\ IsChar(units[i - k], "\\")

Unescape(units) ==
    SelectSeq([i \in DOMAIN units |->
                  IF IsChar(units[i], "\\")
                  THEN C(((HexValue(units[i + 2]) * 16 + HexValue(units[i + 3])) * 16
                          + HexValue(units[i + 4])) * 16 + HexValue(units[i + 5]))
                  ELSE IF InEscape(units, i) THEN << "escape" >>
                  ELSE units[i]],
              LAMBDA u : u[1] # "escape")

JsonString(units) ==
    IF \A i \in DOMAIN units : ~ IsChar(units[i], "\\") THEN Str(Text(units))
    ELSE IF EscapesValid(units) THEN Str(Text(Unescape(units)))
    ELSE Invalid

\* ParseValue and ParseMembers return [v |-> value, i |-> next position],
\* with v = Invalid where the text is not JSON.
RECURSIVE ParseValue(_, _), ParseMembers(_, _, _)
ParseValue(T, i) ==
    IF i > Len(T) THEN [v |-> Invalid, i |-> i]
    ELSE CASE Tag(T[i]) = "string" -> [v |-> JsonString(T[i][2]), i |-> i + 1]
           [] Tag(T[i]) = "number" ->
                [v |-> Num((IF T[i][2] THEN -1 ELSE 1) * FromDigits(T[i][3])),
                 i |-> i + 1]
           [] Tag(T[i]) = "null" -> [v |-> None, i |-> i + 1]
           [] Tag(T[i]) = "{" ->
                IF i + 1 <= Len(T) /\ Tag(T[i + 1]) = "}"
                THEN [v |-> Dict(<< >>), i |-> i + 2]
                ELSE ParseMembers(T, i + 1, << >>)
           [] OTHER -> [v |-> Invalid, i |-> i]
ParseMembers(T, i, acc) ==
    IF i + 1 > Len(T) \/ Tag(T[i]) # "string" \/ Tag(T[i + 1]) # ":"
    THEN [v |-> Invalid, i |-> i]
    ELSE LET key == JsonString(T[i][2])
             val == ParseValue(T, i + 2)
             items == SetItem(acc, StrVal(key), val.v)
         IN  IF key = Invalid \/ val.v = Invalid \/ val.i > Len(T)
             THEN [v |-> Invalid, i |-> val.i]
             ELSE IF Tag(T[val.i]) = "," THEN ParseMembers(T, val.i + 1, items)
             ELSE IF Tag(T[val.i]) = "}" THEN [v |-> Dict(items), i |-> val.i + 1]
             ELSE [v |-> Invalid, i |-> val.i]

\* json.loads: whitespace between tokens is skipped, and the whole text
\* must be one value.
Loads(toks) ==
    LET T == SelectSeq(toks, LAMBDA k : Tag(k) # "nl")
        r == ParseValue(T, 1)
    IN  IF r.v # Invalid /\ r.i = Len(T) + 1 THEN r.v ELSE Invalid

\* The value of v with every reference replaced by the dict it refers to.
RECURSIVE Deref(_, _)
Deref(h, v) ==
    IF Tag(v) = "ref"
    THEN Dict([i \in DOMAIN h[Addr(v)] |->
                  Item(Key(h[Addr(v)][i]), Deref(h, Val(h[Addr(v)][i])))])
    ELSE v

----------------------------------------------------------------------------
(* Properties.  Rec(i) is the record of variant i, Printed(i) what its     *)
(* printed text reads back as: Invalid where the text is not JSON.         *)

JsonBlocks(o) == SelectSeq(o, LAMBDA e : Tag(e) = "json")
NPrinted == Len(JsonBlocks(out))
Printed(i) == Loads(JsonBlocks(out)[i][2])
Field(v, k) == Get(Items(v), k)
HasField(v, k) == Tag(v) = "dict" /\ Has(Items(v), k)

\* The variable main keeps variant i in.
Variant(i) ==
    CASE i = 1 -> valid_data
      [] i = 2 -> expired_data
      [] i = 3 -> wrong_type_data
      [] i = 4 -> missing_fields_data
      [] i = 5 -> invalid_token_data

Rec(i) == Deref(heap, Variant(i))

TopKeys == {"version", "type", "timestamp", "data"}
DataKeys == {"gotifyServerUrl", "appToken", "clientToken", "serverName"}

VersionAndType(p, i) ==
    /\ HasField(p, "version")
    /\ Field(p, "version") = Str("1.0")
    /\ HasField(p, "type")
    /\ Field(p, "type") =
           Str(IF i = 3 THEN "other_app_qr_code" ELSE "droplink_qr_login")

\* C1: every printed record has version "1.0", and type "droplink_qr_login"
\* except the third (wrong type), whose type is "other_app_qr_code"; so
\* does what its text reads back as, where the text is JSON.
C1_VersionAndType ==
    \A i \in 1..NPrinted :
        /\ VersionAndType(Rec(i), i)
        /\ Printed(i) # Invalid => VersionAndType(Printed(i), i)

C1_Witness ==
    /\ pc = "done"
    /\ NPrinted = 5
    /\ Printed(3) # Invalid
    /\ Field(Printed(3), "type") = Str("other_app_qr_code")

\* The timestamp of the record of variant 2.
ExpiredTs == IntVal(Get(heap[Addr(expired_data)], "timestamp"))

\* C2 as stated: from the moment the expired variant is printed, its
\* timestamp is strictly less than the current time minus five minutes
\* (300000 ms), both for the clock itself and for its reading in whole
\* milliseconds.  A clock set back a minute or more after line 55 refutes it.
C2_ExpiredIsStale ==
    NPrinted >= 2 =>
        /\ ExpiredTs < NowMs(clock) - 300000
        /\ ExpiredTs * SubMs < clock - 300000 * SubMs

\* C2: the timestamp of the expired variant is the clock reading of line 55
\* minus 360000 ms, so strictly less than that reading minus five minutes
\* (300000 ms); the timestamp printed is that value; and once it is less
\* than the current time minus five minutes it stays so for as long as the
\* clock is not set back.
C2_BackdatedFromReading ==
    /\ [][(pc = "L55" /\ pc' = "L56") =>
             /\ IntVal(expired_timestamp') = NowMs(clock) - 360000
             /\ IntVal(expired_timestamp') < NowMs(clock) - 300000
             /\ IntVal(expired_timestamp') < NowMs(clock') - 300000]_vars
    /\ [](NPrinted >= 2 =>
             /\ Num(ExpiredTs) = expired_timestamp
             /\ Printed(2) # Invalid =>
                    Field(Printed(2), "timestamp") = expired_timestamp)
    /\ [][(/\ expired_timestamp # None
           /\ expired_timestamp' = expired_timestamp
           /\ IntVal(expired_timestamp) < NowMs(clock) - 300000
           /\ clock' >= clock)
             => IntVal(expired_timestamp') < NowMs(clock') - 300000]_vars

C2_Witness ==
    /\ pc = "done"
    /\ NPrinted >= 2
    /\ NowMs(clock) > ExpiredTs + 360000

\* C3: the data object of the fourth record (missing fields) has exactly
\* the keys gotifyServerUrl and serverName, with their defaults; what its
\* text reads back as, where the text is JSON, has those keys and that URL.
C3_MissingFields ==
    NPrinted >= 4 =>
        LET d == Field(Rec(4), "data")
        IN  /\ Tag(d) = "dict"
            /\ Keys(Items(d)) = {"gotifyServerUrl", "serverName"}
            /\ Field(d, "gotifyServerUrl") = Str("http://111.228.1.24:2345")
            /\ Field(d, "serverName") = Str(DEFAULT_SERVER_NAME)
            /\ Printed(4) # Invalid =>
                   /\ HasField(Printed(4), "data")
                   /\ Tag(Field(Printed(4), "data")) = "dict"
                   /\ Keys(Items(Field(Printed(4), "data"))) = Keys(Items(d))
                   /\ Field(Field(Printed(4), "data"), "gotifyServerUrl") =
                          Field(d, "gotifyServerUrl")

C3_Witness ==
    /\ NPrinted >= 4
    /\ Printed(4) # Invalid
    /\ HasField(Printed(4), "data")
    /\ ~ Has(heap[Addr(Get(heap[Addr(missing_fields_data)], "data"))], "clientToken")

InvalidTokens(d) ==
    /\ HasField(d, "appToken")
    /\ HasField(d, "clientToken")
    /\ Field(d, "appToken") # Str("A1B2C3D4E5F6G7H8")
    /\ Field(d, "clientToken") # Str("X9Y8Z7W6V5U4T3S2")

\* C4: in the fifth record (invalid token) data.appToken and
\* data.clientToken are present and differ from the default tokens; so
\* they are in what its text reads back as, where the text is JSON.
C4_InvalidTokens ==
    NPrinted >= 5 =>
        /\ InvalidTokens(Field(Rec(5), "data"))
        /\ Printed(5) # Invalid => InvalidTokens(Field(Printed(5), "data"))

C4_Witness ==
    /\ NPrinted = 5
    /\ Printed(5) # Invalid
    /\ HasField(Field(Printed(5), "data"), "appToken")

\* The shape of a record: the four top-level keys with a string version and
\* type, an integer timestamp and a data object of strings under dataKeys.
HasShape(p, dataKeys) ==
    /\ Tag(p) = "dict"
    /\ Keys(Items(p)) = TopKeys
    /\ Tag(Field(p, "version")) = "str"
    /\ Tag(Field(p, "type")) = "str"
    /\ Tag(Field(p, "timestamp")) = "int"
    /\ Tag(Field(p, "data")) = "dict"
    /\ Keys(Items(Field(p, "data"))) = dataKeys
    /\ \A k \in dataKeys : Tag(Field(Field(p, "data"), k)) = "str"

\* C5, its first part: for each of the printed blocks, parsing the printed
\* JSON text back yields a record equal to the one that was serialized.  A
\* standard output whose encoding lacks a character of the server name and
\* whose error handler writes something else for it refutes it.
C5_PrintedReadsBack ==
    \A i \in 1..NPrinted : Printed(i) = Rec(i)

\* C6: a call of generate_qr_data returns a record whose four data fields
\* are the supplied argument where one is given and the default otherwise,
\* and whose timestamp is the millisecond the clock is in during the call.
Supplied(a, default) == IF a = Omitted THEN Str(default) ELSE Str(a)

C6_BuilderContract ==
    [][(pc = "gen" /\ pc' = "gen_done") =>
          LET r == Deref(heap', ret')
              d == Field(r, "data")
              ts == Field(r, "timestamp")
          IN  /\ HasShape(r, DataKeys)
              /\ Field(d, "gotifyServerUrl") =
                     Supplied(args[1], "http://111.228.1.24:2345")
              /\ Field(d, "appToken") = Supplied(args[2], "A1B2C3D4E5F6G7H8")
              /\ Field(d, "clientToken") =
                     Supplied(args[3], "X9Y8Z7W6V5U4T3S2")
              /\ Field(d, "serverName") = Supplied(args[4], DEFAULT_SERVER_NAME)
              /\ IntVal(ts) * SubMs <= clock
              /\ clock < (IntVal(ts) + 1) * SubMs]_vars

C6_Witness ==
    /\ pc = "gen_done"
    /\ ret # None
    /\ args[1] = Omitted
    /\ args[2] # Omitted
    /\ clock % SubMs # 0

\* C7: apart from timestamp, the record of each variant printed equals a
\* record built with
\* default arguments except for its own mutation: none in the first, none
\* but the timestamp in the second, the type in the third, the absence of
\* data.appToken and data.clientToken in the fourth, the values of those
\* two in the fifth.
C7_OneMutationEach ==
    \A i \in 1..NPrinted :
        LET p == Rec(i)
            d == Field(p, "data")
        IN  /\ Tag(p) = "dict"
            /\ Keys(Items(p)) = TopKeys
            /\ Field(p, "version") = Str("1.0")
            /\ (i # 3 => Field(p, "type") = Str("droplink_qr_login"))
            /\ Tag(d) = "dict"
            /\ Keys(Items(d)) = (IF i = 4 THEN DataKeys \ {"appToken", "clientToken"}
                                         ELSE DataKeys)
            /\ Field(d, "gotifyServerUrl") = Str("http://111.228.1.24:2345")
            /\ Field(d, "serverName") = Str(DEFAULT_SERVER_NAME)
            /\ (i \notin {4, 5} =>
                   /\ Field(d, "appToken") = Str("A1B2C3D4E5F6G7H8")
                   /\ Field(d, "clientToken") = Str("X9Y8Z7W6V5U4T3S2"))

C7_Witness ==
    /\ NPrinted = 5
    /\ Field(Rec(2), "timestamp") # Field(Rec(1), "timestamp")
    /\ Field(Rec(3), "type") # Field(Rec(1), "type")
    /\ ~ HasField(Field(Rec(4), "data"), "appToken")
    /\ Field(Field(Rec(5), "data"), "appToken") # Field(Field(Rec(1), "data"), "appToken")

\* The object the statement at pc mutates, 0 when it mutates none.
Mutated ==
    CASE pc = "L57" -> Addr(expired_data)
      [] pc = "L65" -> Addr(wrong_type_data)
      [] pc \in {"L73", "L74"} -> Addr(Get(heap[Addr(missing_fields_data)], "data"))
      [] OTHER -> 0

\* C8: the records of the five variants are distinct objects with distinct
\* data objects, and the mutation of one variant shows in no other, built
\* before it or after it: each mutating statement changes the one object
\* it names and no other, only the third variant has the other type, only
\* the fourth lacks the token keys.
Built == {i \in 1..5 : Variant(i) # None}
DataOf(i) == Get(heap[Addr(Variant(i))], "data")

C8_Distinct ==
    /\ \A i, j \in Built : i # j =>
          /\ Addr(Variant(i)) # Addr(Variant(j))
          /\ Addr(DataOf(i)) # Addr(DataOf(j))
    /\ \A i, j \in Built : Addr(Variant(i)) # Addr(DataOf(j))
    /\ \A i \in Built \ {3} :
          Get(heap[Addr(Variant(i))], "type") = Str("droplink_qr_login")
    /\ \A i \in Built \ {4} :
          {"appToken", "clientToken"} \subseteq Keys(heap[Addr(DataOf(i))])

C8_FreshRecords ==
    /\ []C8_Distinct
    /\ [][(Mutated # 0 /\ pc' # pc) =>
             /\ DOMAIN heap' = DOMAIN heap
             /\ heap'[Mutated] # heap[Mutated]
             /\ \A a \in DOMAIN heap : a # Mutated => heap'[a] = heap[a]]_vars

C8_Witness ==
    /\ pc = "done"
    /\ Built = 1..5
    /\ ~ Has(heap[Addr(DataOf(4))], "appToken")
    /\ Get(heap[Addr(Variant(3))], "type") = Str("other_app_qr_code")

\* The output of a whole run: the header, then for each variant in turn its
\* banner, a rule, its record and a blank line, then the hints, each as
\* standard output encodes it.
Banners == << BANNER_1, BANNER_2, BANNER_3, BANNER_4, BANNER_5 >>

OutputLayout ==
    /\ Len(out) = 31
    /\ NPrinted = 5
    /\ \A i \in 1..5 :
          /\ out[4 * i + 1] = Encoded(Line(Banners[i]), encoding, errors)
          /\ out[4 * i + 2] = Encoded(Line(RULE_DASH), encoding, errors)
          /\ out[4 * i + 3] = Encoded(Json(Dumps(heap, Variant(i), 0)), encoding, errors)
          /\ out[4 * i + 4] = Encoded(Blank, encoding, errors)

\* C9: main never raises (both deletions of the fourth variant find their
\* key, every print succeeds), it runs to its end, and at the end exactly
\* five records are printed, each after its banner, in the order valid,
\* expired, wrong type, missing fields, invalid token.  A standard output
\* whose encoding lacks the characters of the title and whose error handler
\* raises (strict, the default) refutes it.
C9_RunsToCompletion ==
    /\ [](pc \notin {"KeyError", "UnicodeEncodeError", "LookupError"})
    /\ [](pc = "done" => OutputLayout)
    /\ (pc = "L40" ~> pc = "done")

\* C10: two runs print the same output but for the timestamps, whatever
\* the clock was in each.
C10_ClockOnlyInTimestamps ==
    (run >= 2 /\ pc \in {"done", "KeyError", "UnicodeEncodeError", "LookupError"})
        => Redact(out) = prev_out

C10_Witness ==
    /\ run >= 2
    /\ pc = "done"
    /\ NPrinted = 5
    /\ prev_ts # None
    /\ Field(Rec(1), "timestamp") # prev_ts

====
